---- MODULE Spec2Model ----
(***************************************************************************)
(* A model of brainstorm/handlers/pycuda_handler.py: the PyCudaHandler     *)
(* operations sum_t, set_from_numpy, binarize_v, broadcast_features_t,     *)
(* conv2d_forward_batch / conv2d_backward_batch and the softmax kernel.    *)
(*                                                                         *)
(* Device arrays are functions over 0-based flat indices (C layout).       *)
(* float32 values are modelled by integers; the finite range of float is   *)
(* -FltMax .. FltMax.                                                      *)
(***************************************************************************)
EXTENDS Integers, Sequences, FiniteSets, TLC

VARIABLES
    \* ---- softmax_kernel, one thread block ----
    height, width,      \* kernel arguments (n, k of softmax_m)
    blockIdx,           \* blockIdx.x of the block
    mat,                \* input matrix, flat
    tmp,                \* tmp[blockIdx.x]: [val, tag]
    out,                \* output matrix, flat; elements are fractions [num, den]
    max_vals,           \* __shared__ float max_vals[]: slot -> [val, tag]
    cur_max, sum, i,    \* per-thread registers
    pc,                 \* per-thread position in the kernel
    arrived,            \* per-thread number of __syncthreads() reached
    exp_arg,            \* column -> <<argument handed to __expf>>, <<>> before
    \* ---- host-side operations, one record of arguments and outcome each ----
    sumt,               \* sum_t(a, axis, out)
    upload,             \* set_from_numpy(mem, arr)
    binz,               \* binarize_v(v, out)
    bcast,              \* broadcast_features_t(a, out)
    \* ---- conv2d_forward_batch / conv2d_backward_batch ----
    at,                 \* the statement the host thread is at ("idle" between calls)
    desc,               \* the call's local descriptor variables: name -> id
    live,               \* the library's live descriptors: records [id, kind]
    events,             \* the library calls of the current (or last) call, in order
    nextId,             \* the next descriptor handle the library hands out
    args,               \* the arguments of the call under way; between calls
                        \* only which function was called last
    calls,              \* number of calls started
    outcome,            \* how the last call ended
    live0               \* the live descriptors when the call began

smVars == <<height, width, blockIdx, mat, tmp, out, max_vals, cur_max, sum, i,
            pc, arrived, exp_arg>>
convVars == <<at, desc, live, events, nextId, args, calls, outcome, live0>>
opVars == <<sumt, upload, binz, bcast>>
hostVars == <<opVars, convVars>>

vars == <<smVars, opVars, convVars>>

None == "None"

(***************************************************************************)
(* Bounds of the model.                                                    *)
(***************************************************************************)
\* Threads per block and stride of the kernel's loops.  The source fixes
\* both to 32 (block=(32,1,1), "i += 32", "max_vals[32]"); the model keeps
\* them equal and scales them down so that every interleaving is explored.
BlockDim == 2
\* Largest row width k and largest number of rows n.
MaxWidth == 3
MaxHeight == 2
\* FLT_MAX of float.h, scaled.
FltMax == 1

Threads == 0 .. BlockDim - 1
Vals == {-FltMax, 0, FltMax}

RECURSIVE Pow2(_)
Pow2(n) == IF n <= 0 THEN 1 ELSE 2 * Pow2(n - 1)

\* __expf on the model's integers: an increasing power of two, exact on
\* [-FltMax, 0], underflowing to 0 below it.
Expf(d) == IF d < -FltMax THEN 0 ELSE Pow2(d + FltMax)

\* One fraction of the output matrix.
Frac(n, d) == [num |-> n, den |-> d]

\* mat[blockIdx.x * width + i]
MatAt(col) == mat[blockIdx * width + col]

(***************************************************************************)
(* Device arrays of the host-side operations: a shape and flat data.       *)
(***************************************************************************)
\* Largest extent of one dimension of the arrays handed to sum_t,
\* set_from_numpy and broadcast_features_t.
MaxDim == 2

RECURSIVE Prod(_)
Prod(s) == IF s = <<>> THEN 1 ELSE Head(s) * Prod(Tail(s))

\* shape[2:]
RECURSIVE Drop(_, _)
Drop(s, n) == IF n = 0 \/ s = <<>> THEN s ELSE Drop(Tail(s), n - 1)

Shapes(rank) == [1 .. rank -> 1 .. MaxDim]

\* x.size
Size(x) == Prod(x.shape)

\* An array of the given shape holding base, base + 1, ... in C order.
Arange(shape, base) ==
    [shape |-> shape, data |-> [j \in 0 .. Prod(shape) - 1 |-> base + j]]

\* An array of the given shape holding one value everywhere.
Full(shape, val) ==
    [shape |-> shape, data |-> [j \in 0 .. Prod(shape) - 1 |-> val]]

RECURSIVE SumTo(_, _)
SumTo(data, n) == IF n = 0 THEN 0 ELSE data[n - 1] + SumTo(data, n - 1)

\* Values a read past the end of a device allocation may return.
Junk == {-1, 0}

(***************************************************************************)
(* sum_t(a, axis, out), lines 92-98, and copy_to, lines 77-80.             *)
(***************************************************************************)
\* The axis argument: <<>> for None, <<n>> for the integer n.
NoAxis == <<>>
Axes == {NoAxis, <<-1>>, <<0>>, <<1>>, <<2>>}

sum_t_args ==
    \E rank \in 0 .. 3 : \E shape \in Shapes(rank) :
    \E a \in {Arange(shape, 1), Full(shape, 1)} :
    \E axis \in Axes : \E n \in 1 .. MaxDim :
        sumt = [a |-> a, axis |-> axis, out |-> Full(<<n>>, -1),
                out0 |-> Full(<<n>>, -1), branch |-> "pending", raised |-> None]

\* cumisc.sum(a): the sum of all elements, a scalar array.
cumisc_sum(a) == Full(<<>>, SumTo(a.data, Size(a)))

\* cumisc.sum(a, axis, out) of the vendor library on an array of rank < 3:
\* column sums (axis 0) or row sums (axis 1) of a matrix, the total of an
\* array of lower rank, stored in out as far as out reaches.
cumisc_sum_axis(a, axis, o) ==
    LET rows == IF Len(a.shape) = 2 THEN a.shape[1] ELSE 1
        cols == IF Len(a.shape) = 2 THEN a.shape[2] ELSE Size(a)
        red == IF Len(a.shape) < 2 THEN [j \in {0} |-> SumTo(a.data, Size(a))]
               ELSE IF axis = <<0>>
               THEN [c \in 0 .. cols - 1 |->
                        SumTo([r \in 0 .. rows - 1 |-> a.data[r * cols + c]], rows)]
               ELSE [r \in 0 .. rows - 1 |->
                        SumTo([c \in 0 .. cols - 1 |-> a.data[r * cols + c]], cols)]
    IN [o EXCEPT !.data = [j \in DOMAIN o.data |->
                              IF j \in DOMAIN red THEN red[j] ELSE o.data[j]]]

\* drv.memcpy_dtod(dest.gpudata, src.gpudata, dest.nbytes): dest.nbytes bytes
\* are copied whatever the size of src; what lies past src is arbitrary.
copy_to(dest, src, junk) ==
    [dest EXCEPT !.data = [j \in DOMAIN dest.data |->
                              IF j < Size(src) THEN src.data[j] ELSE junk]]

\* A missing rank test: every axis 0 or 1 is handed to the vendor reduction.
sum_t_branch_any_rank(a, axis) ==
    IF axis = <<0>> \/ axis = <<1>> THEN "axis"
    ELSE IF axis = NoAxis THEN "all"
    ELSE "raise"

\* The branch sum_t takes, lines 93, 95, 97.
sum_t_branch(a, axis) ==
    IF Len(a.shape) < 3 /\ (axis = <<0>> \/ axis = <<1>>) THEN "axis"
    ELSE IF axis = NoAxis THEN "all"
    ELSE "raise"

sum_t ==
    /\ sumt.branch = "pending"
    /\ LET b == sum_t_branch(sumt.a, sumt.axis)
       IN \E junk \in Junk :
            sumt' = [sumt EXCEPT
                !.branch = b,
                !.raised = IF b = "raise" THEN "NotImplementedError" ELSE None,
                !.out = IF b = "axis"
                            THEN cumisc_sum_axis(sumt.a, sumt.axis, sumt.out)
                        ELSE IF b = "all"
                            THEN copy_to(sumt.out, cumisc_sum(sumt.a), junk)
                        ELSE sumt.out]
    /\ UNCHANGED <<smVars, upload, binz, bcast, convVars>>

(***************************************************************************)
(* set_from_numpy(mem, arr), lines 64-68.                                  *)
(***************************************************************************)
\* Bits of the significand of np.float32 (self.dtype, line 30).
MantissaBits == 24

\* Host values: integers of a float64 or integer host array, some of them
\* not representable in float32.
HostVals == <<0, 3, -7, Pow2(MantissaBits) + 1, Pow2(MantissaBits) + 3,
              -(Pow2(MantissaBits) + 1), Pow2(MantissaBits) + 2>>

\* astype(np.float32) on an integer of magnitude below 2^(MantissaBits+1):
\* exact up to 2^MantissaBits, above it rounded to the nearest even
\* significand (round half to even).
RoundEven(m) ==
    IF m < Pow2(MantissaBits) \/ m % 2 = 0 THEN m
    ELSE IF (m + 1) % 4 = 0 THEN m + 1 ELSE m - 1

astype_float32(x) == IF x < 0 THEN -RoundEven(-x) ELSE RoundEven(x)

\* A host array of the given shape: HostVals from position k on, cyclically.
HostArray(shape, k) ==
    [shape |-> shape,
     data |-> [j \in 0 .. Prod(shape) - 1 |->
                  HostVals[((j + k) % Len(HostVals)) + 1]]]

set_from_numpy_args ==
    \E mrank \in 1 .. 2, arank \in 1 .. 2 :
    \E mshape \in Shapes(mrank), ashape \in Shapes(arank) :
    \E k \in 0 .. Len(HostVals) - 1 :
        upload = [mem |-> Full(mshape, 5), mem0 |-> Full(mshape, 5),
                  arr |-> HostArray(ashape, k), done |-> FALSE, raised |-> None]

\* A missing cast: the host values are stored as they are.
mem_set_uncast(mem, arr) == [mem EXCEPT !.data = arr.data]

\* mem.set(arr.astype(self.dtype)), line 68
mem_set(mem, arr) ==
    [mem EXCEPT !.data = [j \in DOMAIN arr.data |-> astype_float32(arr.data[j])]]

set_from_numpy ==
    /\ ~upload.done
    /\ upload' =
          IF upload.mem.shape # upload.arr.shape
          THEN [upload EXCEPT !.done = TRUE, !.raised = "AssertionError"]
          ELSE [upload EXCEPT !.done = TRUE,
                              !.mem = mem_set(upload.mem, upload.arr)]
    /\ UNCHANGED <<smVars, sumt, binz, bcast, convVars>>

(***************************************************************************)
(* binarize_v(v, out), lines 175-177, and binarize_v_kernel, lines 426-430.*)
(***************************************************************************)
\* Largest number of rows and columns of the one-hot matrix.
MaxRows == 2
MaxCols == 3

binarize_v_args ==
    \E rows \in 1 .. MaxRows, cols \in 1 .. MaxCols :
    \E v \in [0 .. rows - 1 -> -1 .. cols] : \E old \in {0, 1, 9} :
        binz = [v |-> v, out |-> Full(<<rows, cols>>, old),
                written |-> {}, done |-> FALSE]

\* The index range of an ElementwiseKernel: the flat indices of its first
\* array argument.
KernelRange(first) == 0 .. Size(first) - 1

\* A column counted from one instead of zero.
binarize_v_kernel_from_one(v, ncols, idx) ==
    IF v[idx \div ncols] = (idx % ncols) + 1 THEN 1 ELSE 0

\* out[i] = v[i/ncols] == (i % ncols) ? 1.0f : 0.0f
binarize_v_kernel(v, ncols, idx) == IF v[idx \div ncols] = idx % ncols THEN 1 ELSE 0

binarize_v ==
    /\ ~binz.done
    /\ LET ncols == binz.out.shape[2]
           range == KernelRange(binz.out)
       IN binz' = [binz EXCEPT
              !.out.data = [j \in DOMAIN binz.out.data |->
                               IF j \in range
                               THEN binarize_v_kernel(binz.v, ncols, j)
                               ELSE binz.out.data[j]],
              !.written = range,
              !.done = TRUE]
    /\ UNCHANGED <<smVars, sumt, upload, bcast, convVars>>

(***************************************************************************)
(* broadcast_features_t(a, out), lines 136-143, and                        *)
(* broadcast_features_kernel, lines 408-412.                               *)
(***************************************************************************)
broadcast_features_t_args ==
    \E arank \in 2 .. 4, orank \in 2 .. 4 :
    \E ashape \in Shapes(arank), oshape \in Shapes(orank) :
        bcast = [a |-> Arange(ashape, 1), out |-> Full(oshape, 0),
                 reads |-> {}, done |-> FALSE, raised |-> None]

\* The three assertions, lines 138-140.
broadcast_asserts(a, o) ==
    /\ Len(a.shape) = 3
    /\ a.shape[3] = 1
    /\ Len(o.shape) > 2

\* The index of a that thread idx reads: i / broadcast_size.
broadcast_index(idx, broadcast_size) == idx \div broadcast_size

broadcast_features_t ==
    /\ ~bcast.done
    /\ IF ~broadcast_asserts(bcast.a, bcast.out)
       THEN bcast' = [bcast EXCEPT !.done = TRUE, !.raised = "AssertionError"]
       ELSE LET broadcast_size == Prod(Drop(bcast.out.shape, 2))
                range == KernelRange(bcast.out)
            IN \E junk \in Junk :
                 bcast' = [bcast EXCEPT
                    !.out.data = [j \in DOMAIN bcast.out.data |->
                        LET k == broadcast_index(j, broadcast_size)
                        IN IF k < Size(bcast.a) THEN bcast.a.data[k] ELSE junk],
                    !.reads = {broadcast_index(j, broadcast_size) : j \in range},
                    !.done = TRUE]
    /\ UNCHANGED <<smVars, sumt, upload, binz, convVars>>

(***************************************************************************)
(* conv2d_forward_batch, lines 184-234, and conv2d_backward_batch, lines   *)
(* 236-297: the host thread, one library call per step.                    *)
(***************************************************************************)
\* Number of convolution calls of one run.
MaxCalls == 2

ConvArgs ==
    [call : {"forward"},
     inputs : {<<1, 1, h, h>> : h \in 2 .. 3},
     weights : {<<k, 1, kh, kh>> : k \in 1 .. 2, kh \in 1 .. 2},
     bias : 1 .. 2,
     outputs : {<<1, k, h, h>> : k \in 1 .. 2, h \in 1 .. 3},
     pad : 0 .. 1,
     stride : {<<s, s>> : s \in 1 .. 2}]

DescNames == {"x_desc", "w_desc", "b_desc", "conv_desc", "y_desc"}

Event(op, id, kind, name) == [op |-> op, id |-> id, kind |-> kind, name |-> name]

\* cudnnCreate<kind>Descriptor() followed by its cudnnSet...Descriptor.
Create(name, kind) ==
    /\ desc' = [desc EXCEPT ![name] = nextId]
    /\ live' = live \cup {[id |-> nextId, kind |-> kind]}
    /\ events' = Append(events, Event("create", nextId, kind, name))
    /\ nextId' = nextId + 1

\* cudnnDestroy<fn>Descriptor(name)
Destroy(fn, name) ==
    /\ live' = {d \in live : d.id # desc[name]}
    /\ events' = Append(events, Event("destroy", desc[name], fn, name))
    /\ UNCHANGED <<desc, nextId>>

\* Any other library call on the context.
LibCall(fn) ==
    /\ events' = Append(events, Event("call", None, fn, None))
    /\ UNCHANGED <<desc, live, nextId>>

\* An exception leaves the call at once; nothing is released on the way.
Raise(how) ==
    /\ at' = "idle"
    /\ outcome' = how
    /\ args' = [call |-> args.call]
    /\ UNCHANGED <<desc, live, events, nextId, calls, live0>>

\* cudnnGetConvolution2dForwardOutputDim(conv_desc, x_desc, w_desc)
OutputDim(a) ==
    <<a.inputs[1], a.weights[1],
      1 + (a.inputs[3] + 2 * a.pad - a.weights[3]) \div a.stride[1],
      1 + (a.inputs[4] + 2 * a.pad - a.weights[4]) \div a.stride[2]>>

\* Lines 184-189: the call begins; x_desc.
fwd_x_desc ==
    /\ at = "idle"
    /\ calls < MaxCalls
    /\ \E a \in ConvArgs : args' = a
    /\ calls' = calls + 1
    /\ live0' = live
    /\ outcome' = "running"
    /\ desc' = [n \in DescNames |-> IF n = "x_desc" THEN nextId ELSE None]
    /\ live' = live \cup {[id |-> nextId, kind |-> "Tensor"]}
    /\ events' = <<Event("create", nextId, "Tensor", "x_desc")>>
    /\ nextId' = nextId + 1
    /\ at' = "fwd_w_desc"
    /\ UNCHANGED <<smVars, opVars>>

Step(from, to) ==
    /\ at = from
    /\ at' = to
    /\ UNCHANGED <<args, calls, outcome, live0, smVars, opVars>>

\* Lines 191-192
fwd_w_desc == Step("fwd_w_desc", "fwd_b_desc") /\ Create("w_desc", "Filter")

\* Lines 194-196
fwd_b_desc == Step("fwd_b_desc", "fwd_conv_desc") /\ Create("b_desc", "Tensor")

\* Lines 198-200
fwd_conv_desc ==
    Step("fwd_conv_desc", "fwd_assert") /\ Create("conv_desc", "Convolution")

\* The three assertions, lines 203-207.
fwd_asserts(a) ==
    /\ OutputDim(a) = a.outputs
    /\ a.weights[1] = a.bias
    /\ a.outputs[2] = a.bias

fwd_assert ==
    /\ at = "fwd_assert"
    /\ UNCHANGED <<smVars, opVars>>
    /\ IF fwd_asserts(args)
       THEN /\ at' = "fwd_y_desc"
            /\ UNCHANGED <<desc, live, events, nextId, args, calls, outcome,
                           live0>>
       ELSE Raise("AssertionError")

\* Lines 209-211
fwd_y_desc == Step("fwd_y_desc", "fwd_forward") /\ Create("y_desc", "Tensor")

\* Lines 214-225
fwd_forward == Step("fwd_forward", "fwd_add") /\ LibCall("ConvolutionForward")

\* Lines 226-227
fwd_add == Step("fwd_add", "fwd_destroy_x") /\ LibCall("AddTensor")

\* Line 229
fwd_destroy_x == Step("fwd_destroy_x", "fwd_destroy_y") /\ Destroy("Tensor", "x_desc")

\* Line 230
fwd_destroy_y == Step("fwd_destroy_y", "fwd_destroy_w") /\ Destroy("Tensor", "y_desc")

\* Line 231
fwd_destroy_w == Step("fwd_destroy_w", "fwd_destroy_b") /\ Destroy("Filter", "w_desc")

\* b_desc released as a filter descriptor, as lines 294 and 296 do.
fwd_destroy_b_as_filter ==
    Step("fwd_destroy_b", "fwd_destroy_conv") /\ Destroy("Filter", "b_desc")

\* Line 232
fwd_destroy_b ==
    Step("fwd_destroy_b", "fwd_destroy_conv") /\ Destroy("Tensor", "b_desc")

\* Lines 233-234: the last release, and the return.
fwd_destroy_conv ==
    /\ at = "fwd_destroy_conv"
    /\ at' = "idle"
    /\ outcome' = "returned"
    /\ args' = [call |-> args.call]
    /\ Destroy("Convolution", "conv_desc")
    /\ UNCHANGED <<calls, live0, smVars, opVars>>

conv2d_forward_batch ==
    \/ fwd_x_desc
    \/ fwd_w_desc
    \/ fwd_b_desc
    \/ fwd_conv_desc
    \/ fwd_assert
    \/ fwd_y_desc
    \/ fwd_forward
    \/ fwd_add
    \/ fwd_destroy_x
    \/ fwd_destroy_y
    \/ fwd_destroy_w
    \/ fwd_destroy_b
    \/ fwd_destroy_conv

\* The names conv2d_backward_batch can resolve: its parameters (line 237-238;
\* it is a staticmethod, so there is no self), its locals and the module's
\* globals.
BackwardScope ==
    {"out_deltas", "inputs", "in_deltas", "weights", "bias", "weight_deltas",
     "bias_deltas", "pad", "stride", "upscalex", "upscaley", "x_desc",
     "cudnn", "ctypes", "np", "gpuarray", "PyCudaHandler"}

\* Lines 237-241: the call begins; x_desc is created.
bwd_x_desc ==
    /\ at = "idle"
    /\ calls < MaxCalls
    /\ args' = [call |-> "backward"]
    /\ calls' = calls + 1
    /\ live0' = live
    /\ outcome' = "running"
    /\ desc' = [n \in DescNames |-> IF n = "x_desc" THEN nextId ELSE None]
    /\ live' = live \cup {[id |-> nextId, kind |-> "Tensor"]}
    /\ events' = <<Event("create", nextId, "Tensor", "x_desc")>>
    /\ nextId' = nextId + 1
    /\ at' = "bwd_set_x"
    /\ UNCHANGED <<smVars, opVars>>

\* Lines 242-243: the arguments of cudnnSetTensor4dDescriptor name self,
\* which the function cannot resolve: NameError.  Nothing below line 243
\* is ever reached.
bwd_set_x ==
    /\ at = "bwd_set_x"
    /\ "self" \notin BackwardScope
    /\ Raise("NameError")
    /\ UNCHANGED <<smVars, opVars>>

conv2d_backward_batch == bwd_x_desc \/ bwd_set_x

(***************************************************************************)
(* The operations a specification does not exercise stay switched off.     *)
(***************************************************************************)
NoSoftmax ==
    /\ height = 0 /\ width = 0 /\ blockIdx = 0
    /\ mat = None /\ tmp = None /\ out = None /\ max_vals = None
    /\ cur_max = None /\ sum = None /\ i = None
    /\ pc = None /\ arrived = None /\ exp_arg = None

NoConv ==
    /\ at = "off" /\ desc = None /\ live = {} /\ events = <<>>
    /\ nextId = 0 /\ args = None /\ calls = 0 /\ outcome = None /\ live0 = {}

NoHost == sumt = None /\ upload = None /\ binz = None /\ bcast = None /\ NoConv

(***************************************************************************)
(* softmax_m: launch of softmax_kernel with grid=(n,1,1), block=(32,1,1).  *)
(* The blocks of a launch share nothing but mat (read only), so one block  *)
(* is modelled; its row is arbitrary and the other rows hold FLT_MAX.      *)
(***************************************************************************)
Matrices(h, w, b) ==
    { [j \in 0 .. h * w - 1 |->
          IF j \div w = b THEN row[j % w] ELSE FltMax] :
        row \in [0 .. w - 1 -> Vals] }

softmax_m ==
    /\ height \in 1 .. MaxHeight
    /\ width \in 0 .. MaxWidth
    /\ blockIdx \in 0 .. height - 1
    /\ mat \in Matrices(height, width, blockIdx)
    /\ tmp = [val |-> 0, tag |-> "empty"]                 \* gpuarray.empty
    /\ out = [j \in 0 .. height * width - 1 |-> Frac(0, 1)]
    /\ max_vals = [t \in Threads |-> [val |-> 0, tag |-> "empty"]]
    /\ cur_max = [t \in Threads |-> -FltMax]
    /\ sum = [t \in Threads |-> 0]
    /\ i = [t \in Threads |-> t]
    /\ pc = [t \in Threads |-> "scan"]
    /\ arrived = [t \in Threads |-> 0]
    /\ exp_arg = [c \in 0 .. width - 1 |-> <<>>]
    /\ NoHost

\* A barrier that holds nobody back.
SyncPassed_no_wait(b) == b > 0

\* __syncthreads() number b lets a thread go once every thread reached it.
SyncPassed(b) == \A u \in Threads : arrived[u] >= b

\* The first loop of the kernel: the largest of mat over the columns
\* t, t + BlockDim, ... below width, starting from -FLT_MAX.
RECURSIVE ScanMax(_, _)
ScanMax(col, m) ==
    IF col >= width THEN m
    ELSE ScanMax(col + BlockDim, IF MatAt(col) > m THEN MatAt(col) ELSE m)

\* A thread whose strided subset is empty returns at once, before any
\* barrier.
LocalMax_early_return(t) ==
    /\ pc[t] = "scan"
    /\ cur_max' = [cur_max EXCEPT ![t] = ScanMax(t, -FltMax)]
    /\ max_vals' = IF t >= width THEN max_vals
                   ELSE [max_vals EXCEPT ![t] =
                            [val |-> ScanMax(t, -FltMax), tag |-> "max"]]
    /\ pc' = [pc EXCEPT ![t] = IF t >= width THEN "done" ELSE "sync1"]
    /\ arrived' = [arrived EXCEPT ![t] = IF t >= width THEN 0 ELSE 1]
    /\ UNCHANGED hostVars
    /\ UNCHANGED <<height, width, blockIdx, mat, tmp, out, sum, i, exp_arg>>

\* Lines 444-454: scan the strided subset, publish the local maximum,
\* reach the first barrier.
LocalMax(t) ==
    /\ pc[t] = "scan"
    /\ cur_max' = [cur_max EXCEPT ![t] = ScanMax(t, -FltMax)]
    /\ max_vals' = [max_vals EXCEPT ![t] =
                        [val |-> ScanMax(t, -FltMax), tag |-> "max"]]
    /\ pc' = [pc EXCEPT ![t] = "sync1"]
    /\ arrived' = [arrived EXCEPT ![t] = 1]
    /\ UNCHANGED hostVars
    /\ UNCHANGED <<height, width, blockIdx, mat, tmp, out, sum, i, exp_arg>>

\* Where a thread goes after the first and third barrier: thread 0 into the
\* reduction, every other thread straight to the next barrier.
AfterSync(t, reduce, next) == IF t = 0 THEN reduce ELSE next

\* Lines 454-456 and 463: past barrier 1.
PassSync1(t) ==
    /\ pc[t] = "sync1"
    /\ SyncPassed(1)
    /\ pc' = [pc EXCEPT ![t] = AfterSync(t, "reduce_max", "sync2")]
    /\ arrived' = [arrived EXCEPT ![t] = IF t = 0 THEN @ ELSE 2]
    /\ cur_max' = [cur_max EXCEPT ![t] = IF t = 0 THEN -FltMax ELSE @]
    /\ i' = [i EXCEPT ![t] = 0]
    /\ UNCHANGED hostVars
    /\ UNCHANGED <<height, width, blockIdx, mat, tmp, out, max_vals, sum,
                   exp_arg>>

\* A reduction that looks at the reducing thread's own slot only.
ReduceMax_own_slot(t) ==
    /\ pc[t] = "reduce_max"
    /\ i[t] < BlockDim
    /\ cur_max' = [cur_max EXCEPT ![t] =
                      IF max_vals[t].val > @ THEN max_vals[t].val ELSE @]
    /\ i' = [i EXCEPT ![t] = @ + 1]
    /\ UNCHANGED hostVars
    /\ UNCHANGED <<height, width, blockIdx, mat, tmp, out, max_vals, sum, pc,
                   arrived, exp_arg>>

\* Lines 457-460: one iteration of thread 0's reduction of the local maxima.
ReduceMax(t) ==
    /\ pc[t] = "reduce_max"
    /\ i[t] < BlockDim
    /\ cur_max' = [cur_max EXCEPT ![t] =
                      IF max_vals[i[t]].val > @ THEN max_vals[i[t]].val ELSE @]
    /\ i' = [i EXCEPT ![t] = @ + 1]
    /\ UNCHANGED hostVars
    /\ UNCHANGED <<height, width, blockIdx, mat, tmp, out, max_vals, sum, pc,
                   arrived, exp_arg>>

\* Lines 461-463: thread 0 stores the row maximum and reaches barrier 2.
StoreMax(t) ==
    /\ pc[t] = "reduce_max"
    /\ i[t] >= BlockDim
    /\ tmp' = [val |-> cur_max[t], tag |-> "max"]
    /\ pc' = [pc EXCEPT ![t] = "sync2"]
    /\ arrived' = [arrived EXCEPT ![t] = 2]
    /\ UNCHANGED hostVars
    /\ UNCHANGED <<height, width, blockIdx, mat, out, max_vals, cur_max, sum,
                   i, exp_arg>>

\* Lines 463-467: past barrier 2, into the second pass.
PassSync2(t) ==
    /\ pc[t] = "sync2"
    /\ SyncPassed(2)
    /\ pc' = [pc EXCEPT ![t] = "exp"]
    /\ sum' = [sum EXCEPT ![t] = 0]
    /\ i' = [i EXCEPT ![t] = t]
    /\ UNCHANGED hostVars
    /\ UNCHANGED <<height, width, blockIdx, mat, tmp, out, max_vals, cur_max,
                   arrived, exp_arg>>

\* Lines 467-471: one iteration of the second pass.
ExpStep(t) ==
    /\ pc[t] = "exp"
    /\ i[t] < width
    /\ LET d == MatAt(i[t]) - tmp.val
           x == Expf(d)
       IN /\ exp_arg' = [exp_arg EXCEPT ![i[t]] = <<d>>]
          /\ out' = [out EXCEPT ![blockIdx * width + i[t]] = Frac(x, 1)]
          /\ sum' = [sum EXCEPT ![t] = @ + x]
    /\ i' = [i EXCEPT ![t] = @ + BlockDim]
    /\ UNCHANGED hostVars
    /\ UNCHANGED <<height, width, blockIdx, mat, tmp, max_vals, cur_max, pc,
                   arrived>>

\* Lines 472-473: publish the partial sum, reach barrier 3.
StoreSum(t) ==
    /\ pc[t] = "exp"
    /\ i[t] >= width
    /\ max_vals' = [max_vals EXCEPT ![t] = [val |-> sum[t], tag |-> "sum"]]
    /\ pc' = [pc EXCEPT ![t] = "sync3"]
    /\ arrived' = [arrived EXCEPT ![t] = 3]
    /\ UNCHANGED hostVars
    /\ UNCHANGED <<height, width, blockIdx, mat, tmp, out, cur_max, sum, i,
                   exp_arg>>

\* Lines 473-475 and 480: past barrier 3.
PassSync3(t) ==
    /\ pc[t] = "sync3"
    /\ SyncPassed(3)
    /\ pc' = [pc EXCEPT ![t] = AfterSync(t, "reduce_sum", "sync4")]
    /\ arrived' = [arrived EXCEPT ![t] = IF t = 0 THEN @ ELSE 4]
    /\ sum' = [sum EXCEPT ![t] = IF t = 0 THEN 0 ELSE @]
    /\ i' = [i EXCEPT ![t] = 0]
    /\ UNCHANGED hostVars
    /\ UNCHANGED <<height, width, blockIdx, mat, tmp, out, max_vals, cur_max,
                   exp_arg>>

\* Lines 476-477: one iteration of thread 0's reduction of the partial sums.
ReduceSum(t) ==
    /\ pc[t] = "reduce_sum"
    /\ i[t] < BlockDim
    /\ sum' = [sum EXCEPT ![t] = @ + max_vals[i[t]].val]
    /\ i' = [i EXCEPT ![t] = @ + 1]
    /\ UNCHANGED hostVars
    /\ UNCHANGED <<height, width, blockIdx, mat, tmp, out, max_vals, cur_max,
                   pc, arrived, exp_arg>>

\* Lines 478-480: thread 0 stores the row total and reaches barrier 4.
StoreTotal(t) ==
    /\ pc[t] = "reduce_sum"
    /\ i[t] >= BlockDim
    /\ tmp' = [val |-> sum[t], tag |-> "sum"]
    /\ pc' = [pc EXCEPT ![t] = "sync4"]
    /\ arrived' = [arrived EXCEPT ![t] = 4]
    /\ UNCHANGED hostVars
    /\ UNCHANGED <<height, width, blockIdx, mat, out, max_vals, cur_max, sum,
                   i, exp_arg>>

\* Lines 480-481: past barrier 4, into the normalisation.
PassSync4(t) ==
    /\ pc[t] = "sync4"
    /\ SyncPassed(4)
    /\ pc' = [pc EXCEPT ![t] = "div"]
    /\ i' = [i EXCEPT ![t] = t]
    /\ UNCHANGED hostVars
    /\ UNCHANGED <<height, width, blockIdx, mat, tmp, out, max_vals, cur_max,
                   sum, arrived, exp_arg>>

\* Lines 481-483: one iteration of the normalisation.
DivStep(t) ==
    /\ pc[t] = "div"
    /\ i[t] < width
    /\ out' = [out EXCEPT ![blockIdx * width + i[t]] =
                  Frac(@.num, @.den * tmp.val)]
    /\ i' = [i EXCEPT ![t] = @ + BlockDim]
    /\ UNCHANGED hostVars
    /\ UNCHANGED <<height, width, blockIdx, mat, tmp, max_vals, cur_max, sum,
                   pc, arrived, exp_arg>>

\* Line 484: the thread leaves the kernel.
Exit(t) ==
    /\ pc[t] = "div"
    /\ i[t] >= width
    /\ pc' = [pc EXCEPT ![t] = "done"]
    /\ UNCHANGED hostVars
    /\ UNCHANGED <<height, width, blockIdx, mat, tmp, out, max_vals, cur_max,
                   sum, i, arrived, exp_arg>>

softmax_kernel(t) ==
    \/ LocalMax(t)
    \/ PassSync1(t)
    \/ ReduceMax(t)
    \/ StoreMax(t)
    \/ PassSync2(t)
    \/ ExpStep(t)
    \/ StoreSum(t)
    \/ PassSync3(t)
    \/ ReduceSum(t)
    \/ StoreTotal(t)
    \/ PassSync4(t)
    \/ DivStep(t)
    \/ Exit(t)

SoftmaxNext == \E t \in Threads : softmax_kernel(t)

(***************************************************************************)
(* Properties of sum_t.                                                    *)
(***************************************************************************)
Total(a) == SumTo(a.data, Size(a))

\* C1: sum_t performs the axis reduction exactly when rank(a) < 3 and axis is
\* 0 or 1; otherwise, when axis is None (for any rank), it stores the sum of
\* all elements of a in out; in every remaining case it raises
\* NotImplementedError and leaves out unchanged.
C1_SumDispatch ==
    sumt.branch # "pending" =>
        LET rank == Len(sumt.a.shape)
            reducing == rank < 3 /\ sumt.axis \in {<<0>>, <<1>>}
        IN /\ (sumt.branch = "axis") <=> reducing
           /\ reducing => sumt.raised = None
           /\ (~reducing /\ sumt.axis = NoAxis) =>
                 /\ sumt.raised = None
                 /\ sumt.branch = "all"
                 /\ sumt.out.data[0] = Total(sumt.a)
           /\ (~reducing /\ sumt.axis # NoAxis) =>
                 /\ sumt.raised = "NotImplementedError"
                 /\ sumt.out = sumt.out0

\* C1 witness: a rank-3 array summed with axis None.
C1_Witness ==
    /\ sumt.branch = "all"
    /\ Len(sumt.a.shape) = 3
    /\ Size(sumt.a) > 1
    /\ sumt.out.data[0] = Total(sumt.a)

(***************************************************************************)
(* Properties of set_from_numpy.                                           *)
(***************************************************************************)
Abs(x) == IF x < 0 THEN -x ELSE x

\* The integers float32 represents, of magnitude below 2^(MantissaBits+1).
Representable(x) == Abs(x) < Pow2(MantissaBits) \/ x % 2 = 0

\* y is x cast to float32: the representable value nearest to x, the one of
\* even significand when two are equally near.
IsCast(y, x) ==
    /\ Representable(y)
    /\ Representable(x) => y = x
    /\ ~Representable(x) => Abs(y - x) = 1 /\ y % 4 = 0

\* C6: set_from_numpy fails whenever the shapes differ, leaving dest as it
\* was; when the shapes are equal it succeeds and dest holds the elements of
\* arr cast to float32.
C6_SetFromNumpy ==
    upload.done =>
        IF upload.mem0.shape # upload.arr.shape
        THEN upload.raised = "AssertionError" /\ upload.mem = upload.mem0
        ELSE /\ upload.raised = None
             /\ upload.mem.shape = upload.arr.shape
             /\ DOMAIN upload.mem.data = DOMAIN upload.arr.data
             /\ \A j \in DOMAIN upload.arr.data :
                    IsCast(upload.mem.data[j], upload.arr.data[j])

\* C6 witness: an upload of equal shapes where the cast changes a value.
C6_Witness ==
    /\ upload.done
    /\ upload.raised = None
    /\ \E j \in DOMAIN upload.arr.data : upload.mem.data[j] # upload.arr.data[j]

(***************************************************************************)
(* Properties of binarize_v.                                               *)
(***************************************************************************)
\* C7: out[r][c] is 1 exactly when v[r] = c and 0 otherwise, for all r < rows
\* and c < cols; a row holds exactly one 1 when 0 <= v[r] < cols and none
\* otherwise; every element of out is written.
C7_Binarize ==
    binz.done =>
        LET rows == binz.out.shape[1]
            cols == binz.out.shape[2]
            At(r, c) == binz.out.data[r * cols + c]
            Ones(r) == {c \in 0 .. cols - 1 : At(r, c) = 1}
        IN /\ \A r \in 0 .. rows - 1 : \A c \in 0 .. cols - 1 :
                 /\ At(r, c) \in {0, 1}
                 /\ At(r, c) = 1 <=> binz.v[r] = c
           /\ \A r \in 0 .. rows - 1 :
                 Cardinality(Ones(r)) =
                    IF 0 <= binz.v[r] /\ binz.v[r] < cols THEN 1 ELSE 0
           /\ binz.written = 0 .. rows * cols - 1

\* C7 witness: the index vector [2, 0] with three columns gives
\* [[0,0,1],[1,0,0]].
C7_Witness ==
    /\ binz.done
    /\ binz.out.shape = <<2, 3>>
    /\ binz.v[0] = 2 /\ binz.v[1] = 0
    /\ \A j \in 0 .. 5 : binz.out.data[j] = IF j \in {2, 3} THEN 1 ELSE 0

(***************************************************************************)
(* Properties of broadcast_features_t.                                     *)
(***************************************************************************)
\* C10: when the three assertions pass, every index i / broadcast_size that
\* the kernel reads from the flattened a is below a.size.
C10_ReadsInBounds ==
    (bcast.done /\ bcast.raised = None) =>
        \A k \in bcast.reads : k < Size(bcast.a)

(***************************************************************************)
(* Properties of the convolution calls.                                    *)
(***************************************************************************)
\* The positions in events of the events of one operation.
EventsOf(op) == {n \in DOMAIN events : events[n].op = op}

\* The positions in events of the library call fn.
CallsOf(fn) == {n \in EventsOf("call") : events[n].kind = fn}

\* The handles the current (or last) call created.
Created == {events[n].id : n \in EventsOf("create")}

\* No descriptor the call created is live.
NoneLeft == \A d \in live : d.id \notin Created

\* Every descriptor the call created was destroyed exactly once, by the
\* destroy operation of its kind, at a position after `after`.
ReleasedOnce(after) ==
    \A n \in EventsOf("create") :
        LET ds == {m \in EventsOf("destroy") : events[m].id = events[n].id}
        IN /\ Cardinality(ds) = 1
           /\ \A m \in ds : events[m].kind = events[n].kind /\ m > after

\* C2: on every exit path of conv2d_forward_batch, a failed assertion
\* included, no descriptor created by the call is live when control leaves
\* the call.
C2_ForwardNeverLeaks ==
    (at = "idle" /\ args.call = "forward") => NoneLeft

\* C3: on every normal return of conv2d_forward_batch the five descriptors
\* (input, filter, bias, convolution, output) have each been destroyed exactly
\* once by the destroy operation of their kind, after the forward convolution
\* and then the bias addition were issued; as many descriptors are live as
\* before the call.
C3_ForwardReleases ==
    (at = "idle" /\ args.call = "forward" /\ outcome = "returned") =>
        /\ {events[n].name : n \in EventsOf("create")} = DescNames
        /\ Cardinality(EventsOf("create")) = Cardinality(DescNames)
        /\ Cardinality(CallsOf("ConvolutionForward")) = 1
        /\ Cardinality(CallsOf("AddTensor")) = 1
        /\ \A f \in CallsOf("ConvolutionForward") : \A b \in CallsOf("AddTensor") :
              f < b /\ ReleasedOnce(b)
        /\ NoneLeft
        /\ Cardinality(live) = Cardinality(live0)

\* C3 witness: a forward call returns normally after an earlier call failed
\* and left descriptors behind.
C3_Witness ==
    /\ at = "idle" /\ args.call = "forward" /\ outcome = "returned"
    /\ calls = 2
    /\ live # {}
    /\ live = live0

\* C4: a call of conv2d_backward_batch creates six descriptors, performs the
\* three library calls filter-gradient, data-gradient, bias-gradient in this
\* order, and releases every descriptor it created by the destroy operation
\* of its kind, so that none of them is live afterwards.
C4_BackwardReleases ==
    (at = "idle" /\ args.call = "backward") =>
        /\ Cardinality(EventsOf("create")) = 6
        /\ Cardinality(EventsOf("call")) = 3
        /\ \E f \in CallsOf("ConvolutionBackwardFilter") :
           \E d \in CallsOf("ConvolutionBackwardData") :
           \E b \in CallsOf("ConvolutionBackwardBias") :
              f < d /\ d < b /\ ReleasedOnce(b)
        /\ NoneLeft

(***************************************************************************)
(* Properties of the softmax kernel.                                       *)
(***************************************************************************)
Columns == 0 .. width - 1

\* The largest element of the block's row.
RowMax == CHOOSE m \in {MatAt(c) : c \in Columns} : \A c \in Columns : MatAt(c) <= m

\* The second pass is over: every thread published its partial sum.
SecondPassOver == \A t \in Threads : pc[t] \in {"sync3", "reduce_sum", "sync4", "div", "done"}

\* C5: for every width k >= 1, the value the second pass subtracts is the
\* maximum over all k elements of the row, so every argument handed to exp
\* is <= 0 and, once the pass is over, at least one of them is exactly 0.
C5_SubtractsRowMax ==
    /\ \A t \in Threads : (pc[t] = "exp" /\ i[t] < width) => tmp.val = RowMax
    /\ \A c \in Columns : exp_arg[c] # <<>> => exp_arg[c][1] <= 0
    /\ (width >= 1 /\ SecondPassOver) => \E c \in Columns : exp_arg[c] = <<0>>

\* C5 witness: a row wider than the block, of a width that is no multiple
\* of the block's, whose only maximum is not in thread 0's columns.
C5_Witness ==
    /\ \A t \in Threads : pc[t] = "done"
    /\ width > BlockDim /\ width % BlockDim # 0
    /\ \E c \in Columns :
          /\ c % BlockDim # 0
          /\ \A c2 \in Columns \ {c} : MatAt(c2) < MatAt(c)
          /\ exp_arg[c] = <<0>>

\* C8: thread 0 reads a max_vals slot only while it holds its owner's value
\* of the phase being reduced (local maximum, then partial sum); tmp is read
\* as the row maximum only while it holds the maximum, and as the row total
\* only once it holds the total.
C8_RaceFree ==
    /\ (pc[0] = "reduce_max" /\ i[0] < BlockDim) => max_vals[i[0]].tag = "max"
    /\ (pc[0] = "reduce_sum" /\ i[0] < BlockDim) => max_vals[i[0]].tag = "sum"
    /\ \A t \in Threads :
          /\ (pc[t] = "exp" /\ i[t] < width) => tmp.tag = "max"
          /\ (pc[t] = "div" /\ i[t] < width) => tmp.tag = "sum"

\* C8 witness: thread 0 reads another thread's partial sum while that
\* thread waits at the last barrier.
C8_Witness ==
    /\ pc[0] = "reduce_sum" /\ i[0] = 1
    /\ max_vals[1].tag = "sum"
    /\ pc[1] = "sync4"
    /\ width > 1

\* C9: for every width k >= 0, every thread reaches all four barriers and
\* the block terminates.
C9_Terminates == <>(\A t \in Threads : pc[t] = "done" /\ arrived[t] = 4)

\* C9 witness: the block is done although some thread had no column.
C9_Witness ==
    /\ width < BlockDim
    /\ \A t \in Threads : pc[t] = "done" /\ arrived[t] = 4

(***************************************************************************)
(* Specifications, one per operation.                                      *)
(***************************************************************************)
SumTInit ==
    /\ sum_t_args
    /\ upload = None /\ binz = None /\ bcast = None /\ NoConv /\ NoSoftmax
SpecSumT == SumTInit /\ [][sum_t]_vars

UploadInit ==
    /\ set_from_numpy_args
    /\ sumt = None /\ binz = None /\ bcast = None /\ NoConv /\ NoSoftmax
SpecUpload == UploadInit /\ [][set_from_numpy]_vars

BinarizeInit ==
    /\ binarize_v_args
    /\ sumt = None /\ upload = None /\ bcast = None /\ NoConv /\ NoSoftmax
SpecBinarize == BinarizeInit /\ [][binarize_v]_vars

BroadcastInit ==
    /\ broadcast_features_t_args
    /\ sumt = None /\ upload = None /\ binz = None /\ NoConv /\ NoSoftmax
SpecBroadcast == BroadcastInit /\ [][broadcast_features_t]_vars

\* The handler after __init__(init_cudnn=True): no descriptor exists.
ConvInit ==
    /\ at = "idle" /\ desc = [n \in DescNames |-> None] /\ live = {}
    /\ events = <<>> /\ nextId = 1 /\ args = [call |-> "none"] /\ calls = 0
    /\ outcome = None /\ live0 = {}
    /\ sumt = None /\ upload = None /\ binz = None /\ bcast = None /\ NoSoftmax
ConvNext == conv2d_forward_batch \/ conv2d_backward_batch
SpecConv == ConvInit /\ [][ConvNext]_vars

SpecSoftmax == softmax_m /\ [][SoftmaxNext]_vars

\* Every thread of a resident block is scheduled again and again.
SpecSoftmaxFair ==
    SpecSoftmax /\ \A t \in Threads : WF_vars(softmax_kernel(t))

====
